---- MODULE Spec2Model ----
(***************************************************************************)
(* Model of the project tree, its bulk ingestion and its localStorage      *)
(* persistence (src/src/components/CodeEditor.tsx,                         *)
(* src/src/components/ProjectUploader.tsx) and of the useFileSystem hook   *)
(* (its source is the TypeScript appended to src/PROMPT_INTEGRATION_GUIDE  *)
(* .md, lines 507-800), of the FileBrowser component over that hook (its   *)
(* source is in src/src/components/FileBrowser/README.md, lines 252-489)   *)
(* and of useComposer.sendMessage over usePromptIntegration and the        *)
(* PromptManager (src/src/hooks, src/unnamed/part_001).                    *)
(*                                                                         *)
(* Representation                                                          *)
(*  - a path or id string is the sequence of its "/"-separated segments:   *)
(*    "src/app.ts" is <<"src", "app.ts">>, `${path}/${name}` is            *)
(*    Append(path, name), path.split('/') is the sequence itself;          *)
(*  - a Date is [k |-> "date", ms |-> n], the ISO string JSON.stringify    *)
(*    makes of it is [k |-> "iso", ms |-> n];                              *)
(*  - a file content string is [has, len, extraWs]: whether it is defined, *)
(*    its length, and how many characters the whitespace collapse of       *)
(*    compressData removes from it;                                        *)
(*  - the string under the localStorage key is [kind, elems]: absent, the  *)
(*    empty string, unparseable text, or the JSON value it parses to;      *)
(*  - a TreeNode is a record with the fields of FileSystemItem; objects    *)
(*    are modelled by value, and a function that assigns to a field of an  *)
(*    object it was given returns, besides its result, the value its       *)
(*    argument has afterwards.                                             *)
(*  - the empty path string '' is <<"">>, so `${''}/${name}` is            *)
(*    <<"", name>>;                                                        *)
(*  - an effect runs after the render its dependencies changed in and      *)
(*    before the next event: it is part of the action of the handler that  *)
(*    caused the render.                                                   *)
(***************************************************************************)
EXTENDS Integers, Sequences, FiniteSets, TLC

VARIABLES
  store,           \* localStorage['intellicode-saved-projects']
  quota,           \* bytes the browser lets that key hold
  savedProjects,   \* CodeEditor state
  currentProject,  \* CodeEditor state
  now,             \* Date.now()
  phase,           \* "init" before mount, "mounted", "crashed" after an uncaught throw
  last,            \* what the last CodeEditor handler did (observation only)
  activeFiles,     \* CodeEditor state: the files open in the editor
  activeFileId,    \* CodeEditor state: <<id>> of the file shown, <<>> for null
  files,           \* useFileSystem state
  expandedFolders, \* useFileSystem state
  selectedFiles,   \* useFileSystem state
  fsLast,          \* the last useFileSystem call and the trees around it (observation only)
  fsRepeated,      \* the last call repeated the call before it (observation only)
  fsCalls,         \* how many tree operations were called (bounds the runs)
  batch,           \* the FileList the directory input hands to its onChange handler
  uploadedFiles,   \* ProjectUploader state
  report,          \* what the last bulk ingestion reported (observation only)
  config,          \* FileBrowser props.config
  messages,        \* useComposer state
  selectedPrompt,  \* usePromptIntegration state.selectedPrompt: <<id>>, <<>> for null
  error,           \* useComposer state
  prompts,         \* promptManager.prompts, in insertion order
  deepSeekConfigured, \* useDeepSeek().isConfigured
  pending          \* the handleDirectoryUpload call that is suspended at an await

ceVars ==
  <<store, quota, savedProjects, currentProject, now, phase, last, activeFiles,
    activeFileId>>
fsVars == <<files, expandedFolders, selectedFiles, fsLast, fsRepeated, fsCalls>>
inVars == <<batch, uploadedFiles, report>>
fbVars == <<config>>
coVars == <<messages, selectedPrompt, error, prompts, deepSeekConfigured>>
upVars == <<pending>>
xVars == <<fbVars, coVars, upVars>>
vars == <<ceVars, fsVars, inVars, xVars>>

(***************************************************************************)
(* Bounds                                                                  *)
(***************************************************************************)
MaxClock == 12       \* the clock stops handlers at this time
MaxProjects == 3     \* handlers that add a project need fewer than this many
MaxOpen == 1         \* files open in the editor
BulkCount == 21      \* files of the over-the-ceiling upload

(***************************************************************************)
(* Program constants                                                       *)
(***************************************************************************)
MAX_FILE_SIZE == 5 * 1024 * 1024
MAX_PROJECT_SIZE == 100 * 1024 * 1024

MiB == 1024 * 1024

Date(ms) == [k |-> "date", ms |-> ms]
Iso(ms) == [k |-> "iso", ms |-> ms]
\* new Date(x) for a Date or an ISO string
NewDate(x) == Date(x.ms)
\* Date.prototype.toJSON; JSON.stringify leaves a string as it is
DateToJSON(x) == Iso(x.ms)

NoContent == [has |-> FALSE, len |-> 0, extraWs |-> 0]
Text(len, extraWs) == [has |-> TRUE, len |-> len, extraWs |-> extraWs]

RECURSIVE SumSeq(_)
SumSeq(s) == IF s = <<>> THEN 0 ELSE Head(s) + SumSeq(Tail(s))

(***************************************************************************)
(* Segment names of the model and what the string tests say about them     *)
(***************************************************************************)
BulkName(i) == "f" \o ToString(i) \o ".ts"
BulkNames == {BulkName(i) : i \in 1..(BulkCount + 1)}

\* names the extension list of handleDirectoryUpload (462-481) accepts
CodeEditorTextNames ==
  {"app.ts", "util.ts", "big.ts", "exact.ts", "index.js", "README.md", "notes.txt", "main.py"}
  \cup BulkNames
\* names the shorter list of processFiles (72-81) accepts
UploaderTextNames ==
  {"app.ts", "util.ts", "big.ts", "exact.ts", "index.js", "README.md", "notes.txt"}
  \cup BulkNames
\* lower-cased segments some entry of IGNORE_PATTERNS matches:
\* 'node_modules', 'dist', '*.log', '*.png', '.git', '.env', 'out' (in "layout.ts")
IgnoredSegments ==
  {"node_modules", "dist", "debug.log", "logo.png", ".git", ".env", "layout.ts"}
\* segments for which part.startsWith('.') holds
DotSegments == {".git", ".env", ".hidden"}

IGNORE_PATTERNS_match(pathParts) == \E i \in 1..Len(pathParts) : pathParts[i] \in IgnoredSegments

shouldIgnoreFile(pathParts, fileSize) ==
  IF fileSize > MAX_FILE_SIZE THEN TRUE
  ELSE IGNORE_PATTERNS_match(pathParts)

(***************************************************************************)
(* Tree nodes                                                              *)
(***************************************************************************)
FolderNode(path, lastModified) ==
  [id |-> path, name |-> path[Len(path)], type |-> "folder", path |-> path,
   size |-> 0, lastModified |-> lastModified, content |-> NoContent,
   children |-> <<>>]

FileNode(path, size, lastModified, content) ==
  [id |-> path, name |-> path[Len(path)], type |-> "file", path |-> path,
   size |-> size, lastModified |-> lastModified, content |-> content,
   children |-> <<>>]

\* `if (item.children)`: every folder is made with an array, no file with one
HasChildren(item) == item.type = "folder"

\* findFolderByPath: the place (indices from the roots down) of the first
\* folder with that path in depth-first order, <<>> for null
RECURSIVE findInTreeByPath(_, _, _)
findInTreeByPath(items, path, i) ==
  IF i > Len(items) THEN <<>>
  ELSE IF items[i].path = path /\ items[i].type = "folder" THEN <<i>>
  ELSE LET found == IF HasChildren(items[i])
                    THEN findInTreeByPath(items[i].children, path, 1)
                    ELSE <<>>
       IN IF found # <<>> THEN <<i>> \o found
          ELSE findInTreeByPath(items, path, i + 1)

findFolderByPath(items, path) == findInTreeByPath(items, path, 1)

\* parent.children.push(node) for the object at place loc
RECURSIVE pushChild(_, _, _)
pushChild(items, loc, node) ==
  IF Len(loc) = 1
  THEN [items EXCEPT ![loc[1]].children = Append(@, node)]
  ELSE [items EXCEPT ![loc[1]].children = pushChild(@, Tail(loc), node)]

RECURSIVE AllNodes(_)
\* every node of a tree in depth-first order
AllNodes(items) ==
  IF items = <<>> THEN <<>>
  ELSE <<Head(items)>> \o AllNodes(Head(items).children) \o AllNodes(Tail(items))

NodeIds(items) == {AllNodes(items)[i].id : i \in 1..Len(AllNodes(items))}
FileNodes(items) == SelectSeq(AllNodes(items), LAMBDA n : n.type = "file")

(***************************************************************************)
(* CodeEditor.handleDirectoryUpload, lines 395-550.  A File is             *)
(* [path, size, type, lastModified, content, throws]: webkitRelativePath,  *)
(* byte size, MIME type, the text file.text() yields and whether it throws *)
(***************************************************************************)
File(path, size, content, throws) ==
  [path |-> path, size |-> size, type |-> "", lastModified |-> 1,
   content |-> content, throws |-> throws]

EmptyIngest ==
  [projectFiles |-> <<>>, mapFolders |-> {}, mapFiles |-> {}, totalSize |-> 0,
   ignoredFiles |-> 0, processedFiles |-> 0, nodeModulesIgnored |-> 0]

\* fileMap.get(parentPath) is a folder object: push into it.  The object is
\* in the tree unless its own parent was missing when it was made.
PushToParent(st, parentPath, node) ==
  IF parentPath \in st.mapFolders /\ findFolderByPath(st.projectFiles, parentPath) # <<>>
  THEN pushChild(st.projectFiles, findFolderByPath(st.projectFiles, parentPath), node)
  ELSE st.projectFiles

\* lines 425-456, the loop body for index i (1-based: folder pathParts[1..i])
RECURSIVE CreateFolders(_, _, _, _)
CreateFolders(st, pathParts, i, t) ==
  IF i > Len(pathParts) - 1 THEN st
  ELSE LET currentPath == SubSeq(pathParts, 1, i)
           folder == FolderNode(currentPath, Date(t))
           has == currentPath \in st.mapFolders \cup st.mapFiles
           st1 == IF pathParts[i] = "node_modules" \/ has THEN st
                  ELSE [st EXCEPT
                         !.mapFolders = @ \cup {currentPath},
                         !.projectFiles =
                            IF i = 1 THEN Append(@, folder)
                            ELSE PushToParent(st, SubSeq(pathParts, 1, i - 1), folder)]
       IN CreateFolders(st1, pathParts, i + 1, t)

CodeEditorReadsText(file) ==
  file.type = "text/plain" \/ file.path[Len(file.path)] \in CodeEditorTextNames

\* IngestOne that counts a node_modules file in nodeModulesIgnored only
IngestOne_nodeModulesOnly(st, file, t) ==
  LET pathParts == file.path IN
  IF \E i \in 1..Len(pathParts) : pathParts[i] = "node_modules"
  THEN [st EXCEPT !.nodeModulesIgnored = @ + 1]
  ELSE IF shouldIgnoreFile(pathParts, file.size)
  THEN [st EXCEPT !.ignoredFiles = @ + 1]
  ELSE LET st1 == CreateFolders(st, pathParts, 1, t)
           reads == CodeEditorReadsText(file)
       IN IF reads /\ file.throws
          THEN [st1 EXCEPT !.ignoredFiles = @ + 1]
          ELSE LET content == IF reads THEN file.content ELSE NoContent
                   fileItem == FileNode(pathParts, file.size, Date(file.lastModified), content)
                   st2 == [st1 EXCEPT
                            !.totalSize = IF reads THEN @ + content.len ELSE @,
                            !.mapFiles = @ \cup {pathParts},
                            !.mapFolders = @ \ {pathParts},
                            !.processedFiles = @ + 1]
               IN [st2 EXCEPT !.projectFiles =
                     IF Len(pathParts) = 1 THEN Append(@, fileItem)
                     ELSE PushToParent(st2, SubSeq(pathParts, 1, Len(pathParts) - 1), fileItem)]

\* lines 406-512, one iteration of the for loop
IngestOne(st, file, t) ==
  LET pathParts == file.path IN
  IF \E i \in 1..Len(pathParts) : pathParts[i] = "node_modules"
  THEN [st EXCEPT !.nodeModulesIgnored = @ + 1, !.ignoredFiles = @ + 1]
  ELSE IF shouldIgnoreFile(pathParts, file.size)
  THEN [st EXCEPT !.ignoredFiles = @ + 1]
  ELSE LET st1 == CreateFolders(st, pathParts, 1, t)
           reads == CodeEditorReadsText(file)
       IN IF reads /\ file.throws
          THEN [st1 EXCEPT !.ignoredFiles = @ + 1]
          ELSE LET content == IF reads THEN file.content ELSE NoContent
                   fileItem == FileNode(pathParts, file.size, Date(file.lastModified), content)
                   st2 == [st1 EXCEPT
                            !.totalSize = IF reads THEN @ + content.len ELSE @,
                            !.mapFiles = @ \cup {pathParts},
                            !.mapFolders = @ \ {pathParts},
                            !.processedFiles = @ + 1]
               IN [st2 EXCEPT !.projectFiles =
                     IF Len(pathParts) = 1 THEN Append(@, fileItem)
                     ELSE PushToParent(st2, SubSeq(pathParts, 1, Len(pathParts) - 1), fileItem)]

RECURSIVE IngestFrom(_, _, _, _)
\* the for loop of line 406 from index i; the state after an iteration is
\* evaluated (next = next) before the following one starts
IngestFrom(st, fileArray, i, t) ==
  IF i > Len(fileArray) THEN st
  ELSE LET next == IngestOne(st, fileArray[i], t)
       IN IF next = next THEN IngestFrom(next, fileArray, i + 1, t) ELSE st

\* the tree, the total and the counters handleDirectoryUpload ends with
handleDirectoryUpload_ingest(fileArray, t) == IngestFrom(EmptyIngest, fileArray, 1, t)

(***************************************************************************)
(* Serialisation: JSON.stringify and compressData, lines 234-244           *)
(***************************************************************************)
RECURSIVE stringifyNodes(_)
\* JSON.stringify of a TreeNode array: every Date becomes its ISO string
stringifyNodes(items) ==
  IF items = <<>> THEN <<>>
  ELSE <<[Head(items) EXCEPT !.lastModified = DateToJSON(@),
                             !.children = stringifyNodes(@)]>>
       \o stringifyNodes(Tail(items))

stringifyProject(p) ==
  [p EXCEPT !.lastOpened = DateToJSON(@), !.createdAt = DateToJSON(@),
            !.files = stringifyNodes(@)]

JSON_stringify(projects) ==
  [kind |-> "array",
   elems |-> [i \in 1..Len(projects) |->
                IF projects[i].shape = "project" THEN stringifyProject(projects[i])
                ELSE projects[i]]]

RECURSIVE collapseNodes(_)
\* jsonString.replace(/\s+/g, ' '): every whitespace run of a content string
\* becomes one space
collapseNodes(items) ==
  IF items = <<>> THEN <<>>
  ELSE <<[Head(items) EXCEPT !.content = [@ EXCEPT !.len = @ - Head(items).content.extraWs,
                                                   !.extraWs = 0],
                             !.children = collapseNodes(@)]>>
       \o collapseNodes(Tail(items))

collapseWhitespace(json) ==
  [json EXCEPT !.elems = [i \in 1..Len(json.elems) |->
                            [json.elems[i] EXCEPT !.files = collapseNodes(@)]]]

compressData(projects) == collapseWhitespace(JSON_stringify(projects))

\* characters of the JSON text of a node array: the content strings plus the
\* keys, ids and punctuation of each node (taken as 100 characters a node)
RECURSIVE nodesLength(_)
nodesLength(items) ==
  IF items = <<>> THEN 0
  ELSE 100 + (IF Head(items).content.has THEN Head(items).content.len ELSE 0)
       + nodesLength(Head(items).children) + nodesLength(Tail(items))

\* new Blob([compressed]).size for the text of a project array
BlobSize(json) ==
  2 + SumSeq([i \in 1..Len(json.elems) |-> 120 + nodesLength(json.elems[i].files)])

(***************************************************************************)
(* safeSetItem, lines 247-301                                              *)
(***************************************************************************)
\* Array.prototype.sort with the comparator of lines 278-280 (stable)
RECURSIVE insertByLastOpened(_, _)
insertByLastOpened(sorted, p) ==
  IF sorted = <<>> THEN <<p>>
  ELSE IF NewDate(p.lastOpened).ms - NewDate(Head(sorted).lastOpened).ms < 0
       THEN <<p>> \o sorted
       ELSE <<Head(sorted)>> \o insertByLastOpened(Tail(sorted), p)

RECURSIVE sortByLastOpenedFrom(_, _)
sortByLastOpenedFrom(projects, i) ==
  IF i = 0 THEN <<>>
  ELSE insertByLastOpened(sortByLastOpenedFrom(projects, i - 1), projects[i])

sortByLastOpened(projects) == sortByLastOpenedFrom(projects, Len(projects))

\* quotaCleanup with projects.pop() in place of projects.shift()
quotaCleanup_pop(st, q) ==
  IF st.kind # "array" THEN st
  ELSE IF ~(Len(st.elems) > 1) THEN st
  ELSE IF \E i \in 1..Len(st.elems) : st.elems[i].shape = "null" THEN st
  ELSE LET sorted == sortByLastOpened(st.elems)
           rewritten == collapseWhitespace([kind |-> "array",
                                            elems |-> SubSeq(sorted, 1, Len(sorted) - 1)])
       IN IF BlobSize(rewritten) <= q THEN rewritten ELSE st

\* the catch branch for QuotaExceededError, lines 264-291: the store afterwards
quotaCleanup(st, q) ==
  IF st.kind # "array" THEN st
  ELSE IF ~(Len(st.elems) > 1) THEN st
  ELSE IF \E i \in 1..Len(st.elems) : st.elems[i].shape = "null" THEN st
  ELSE LET projects == Tail(sortByLastOpened(st.elems))
           rewritten == collapseWhitespace([kind |-> "array", elems |-> projects])
       IN IF BlobSize(rewritten) <= q THEN rewritten ELSE st

\* safeSetItem without the size test of line 252
safeSetItem_noCeiling(st, q, value) ==
  LET compressed == compressData(value)
      size == BlobSize(compressed)
  IN IF size <= q
     THEN [ret |-> TRUE, store |-> compressed, toast |-> "none"]
     ELSE [ret |-> FALSE, store |-> quotaCleanup(st, q), toast |-> "Storage full"]

\* the result of safeSetItem('intellicode-saved-projects', value): the value it
\* returns, the store afterwards and the toast it shows first
safeSetItem(st, q, value) ==
  LET compressed == compressData(value)
      size == BlobSize(compressed)
  IN IF size > MAX_PROJECT_SIZE
     THEN [ret |-> FALSE, store |-> st, toast |-> "Project too large"]
     ELSE IF size <= q
     THEN [ret |-> TRUE, store |-> compressed, toast |-> "none"]
     ELSE [ret |-> FALSE, store |-> quotaCleanup(st, q), toast |-> "Storage full"]

\* useEffect of lines 332-336
persistEffect(st, q, projects) ==
  IF Len(projects) > 0 THEN safeSetItem(st, q, projects)
  ELSE [ret |-> FALSE, store |-> st, toast |-> "not called"]

(***************************************************************************)
(* safeGetItem, lines 303-311, and the load effect, lines 314-329          *)
(***************************************************************************)
NullItem == [kind |-> "null", elems |-> <<>>]

\* item ? JSON.parse(item) : null, a throw of JSON.parse caught
safeGetItem(st) ==
  IF st.kind \in {"absent", "empty", "garbage"} THEN NullItem ELSE st

\* `if (saved)`
Truthy(saved) == saved.kind \in {"number", "object", "array"}

\* saved.map(...) throws: saved has no map, or an element is null or has no
\* files array
loadThrows(saved) ==
  \/ saved.kind \in {"number", "object"}
  \/ /\ saved.kind = "array"
     /\ \E i \in 1..Len(saved.elems) : saved.elems[i].shape # "project"

\* lines 318-326: the dates of a project and of its root-level files only
projectWithDates(project) ==
  [project EXCEPT !.lastOpened = NewDate(@), !.createdAt = NewDate(@),
                  !.files = [i \in 1..Len(project.files) |->
                               [project.files[i] EXCEPT !.lastModified = NewDate(@)]]]

projectsWithDates(saved) ==
  [i \in 1..Len(saved.elems) |-> projectWithDates(saved.elems[i])]

(***************************************************************************)
(* Inputs of the model: uploaded directories, stored strings, quotas       *)
(***************************************************************************)
\* one source file of 4 MiB whose text has a run of three spaces, a
\* node_modules file and an image
UploadSmall ==
  << File(<<"proj", "src", "app.ts">>, 4 * MiB, Text(4 * MiB, 2), FALSE),
     File(<<"proj", "node_modules", "lib", "index.js">>, 200, Text(200, 0), FALSE),
     File(<<"proj", "logo.png">>, 1024, NoContent, FALSE) >>

\* two source files of 4 MiB and 3 MiB and one whose read throws
UploadMedium ==
  << File(<<"work", "app.ts">>, 4 * MiB, Text(4 * MiB, 0), FALSE),
     File(<<"work", "lib", "util.ts">>, 3 * MiB, Text(3 * MiB, 0), FALSE),
     File(<<"work", "lib", "notes.txt">>, 10, NoContent, TRUE) >>

\* BulkCount source files of 5 MiB each: more than MAX_PROJECT_SIZE in all
UploadHuge ==
  [i \in 1..BulkCount |->
     File(<<"big", BulkName(i)>>, MAX_FILE_SIZE, Text(MAX_FILE_SIZE, 0), FALSE)]

Uploads == {UploadSmall, UploadMedium, UploadHuge}

QuotaSmall == 10 * MiB
QuotaLarge == 200 * MiB

\* savedProject, lines 517-525, for what the loop ended with
projectOfIngest(ing, fileArray, t) ==
  [shape |-> "project", id |-> t, name |-> fileArray[1].path[1],
   files |-> ing.projectFiles, lastOpened |-> Date(t), createdAt |-> Date(t),
   totalSize |-> ing.totalSize]

\* the project handleDirectoryUpload makes at time t
uploadedProject(fileArray, t) ==
  projectOfIngest(handleDirectoryUpload_ingest(fileArray, t), fileArray, t)

\* an array element that is not a project: null, or an object without files
Malformed(shape) ==
  [shape |-> shape, id |-> 0, name |-> "", files |-> <<>>, lastOpened |-> Iso(0),
   createdAt |-> Iso(0), totalSize |-> 0]

StoredText(kind, elems) == [kind |-> kind, elems |-> elems]

\* what an earlier session left under the key: nothing, damaged text, JSON of
\* another shape, or the list it saved (projects opened at times 1 and 2)
InitialStores ==
  LET P1 == uploadedProject(UploadSmall, 1)
      P2 == [uploadedProject(UploadSmall, 2) EXCEPT !.name = "other"]
  IN { StoredText(k, <<>>) : k \in {"absent", "empty", "garbage", "null", "number", "object", "array"} }
     \cup { StoredText("array", <<Malformed("null")>>),
            StoredText("array", <<Malformed("noFiles")>>),
            compressData(<<P1>>), compressData(<<P1, P2>>), compressData(<<P2, P1>>) }

(***************************************************************************)
(* CodeEditor: mount and the handlers, each with the persist effect that   *)
(* React runs after the state change and before the next event             *)
(***************************************************************************)
\* no useFileSystem call yet
NoCall ==
  [op |-> "none", id |-> <<>>, name |-> "", multiple |-> FALSE, before |-> <<>>,
   argAfter |-> <<>>, expanded |-> {}]

Observed(op, w, newId, threw) ==
  [op |-> op, ret |-> w.ret, toast |-> w.toast, storeBefore |-> store,
   newId |-> newId, threw |-> threw]

NotCalled == [ret |-> FALSE, store |-> store, toast |-> "not called"]

\* no directory chosen and nothing ingested yet
NoReport ==
  [by |-> "none", candidates |-> 0, processedFiles |-> 0, ignoredFiles |-> 0,
   nodeModulesIgnored |-> 0, totalSize |-> 0]

NoIngestion ==
  /\ batch = <<>>
  /\ uploadedFiles = <<>>
  /\ report = NoReport

\* the configuration of a FileBrowser that is given none
DefaultConfig == [allowMultipleSelection |-> FALSE, defaultExpandedFolders |-> <<>>]

\* no handleDirectoryUpload call is suspended
NoPending ==
  [pc |-> "idle", fileArray |-> <<>>, i |-> 0, st |-> EmptyIngest, t |-> 0,
   closure |-> <<>>]

\* no file browser configuration, no conversation, no upload in flight
Quiet ==
  /\ config = DefaultConfig
  /\ messages = <<>>
  /\ selectedPrompt = <<>>
  /\ error = "null"
  /\ prompts = <<>>
  /\ deepSeekConfigured = FALSE
  /\ pending = NoPending

\* the editor mounted over an empty store, no handler run yet
IdleEditor ==
  /\ store = StoredText("absent", <<>>)
  /\ quota = QuotaSmall
  /\ savedProjects = <<>>
  /\ currentProject = <<>>
  /\ now = 10
  /\ phase = "mounted"
  /\ last = [op |-> "none", ret |-> FALSE, toast |-> "not called", storeBefore |-> store,
             newId |-> 0, threw |-> FALSE]
  /\ activeFiles = <<>>
  /\ activeFileId = <<>>

InitStore ==
  /\ Quiet
  /\ store \in InitialStores
  /\ quota \in {QuotaSmall, QuotaLarge}
  /\ savedProjects = <<>>
  /\ currentProject = <<>>
  /\ now = 10
  /\ phase = "init"
  /\ last = [op |-> "none", ret |-> FALSE, toast |-> "not called", storeBefore |-> store,
             newId |-> 0, threw |-> FALSE]
  /\ activeFiles = <<>>
  /\ activeFileId = <<>>
  /\ files = <<>>
  /\ expandedFolders = {}
  /\ selectedFiles = {}
  /\ fsLast = NoCall
  /\ fsRepeated = FALSE
  /\ fsCalls = 0
  /\ NoIngestion

\* lines 314-329, then the persist effect for the loaded list
Mount ==
  /\ phase = "init"
  /\ LET saved == safeGetItem(store) IN
     IF Truthy(saved) /\ loadThrows(saved)
     THEN /\ phase' = "crashed"
          /\ last' = Observed("mount", NotCalled, 0, TRUE)
          /\ UNCHANGED <<store, savedProjects>>
     ELSE LET loaded == IF Truthy(saved) THEN projectsWithDates(saved) ELSE <<>>
              w == IF Truthy(saved) THEN persistEffect(store, quota, loaded) ELSE NotCalled
          IN /\ phase' = "mounted"
             /\ savedProjects' = loaded
             /\ store' = w.store
             /\ last' = Observed("mount", w, 0, FALSE)
  /\ UNCHANGED <<quota, currentProject, now, activeFiles, activeFileId>>
  /\ UNCHANGED <<fsVars, inVars, xVars>>

\* handleDirectoryUpload, lines 395-550
Upload(fileArray) ==
  /\ phase = "mounted"
  /\ now < MaxClock
  /\ Len(savedProjects) < MaxProjects
  /\ LET t == now + 1
         ing == handleDirectoryUpload_ingest(fileArray, t)
         savedProject == projectOfIngest(ing, fileArray, t)
         projects == <<savedProject>> \o savedProjects
         w == persistEffect(store, quota, projects)
     IN /\ now' = t
        /\ currentProject' = savedProject.files
        /\ savedProjects' = projects
        /\ store' = w.store
        /\ last' = Observed("upload", w, savedProject.id, FALSE)
        /\ report' = [by |-> "handleDirectoryUpload", candidates |-> Len(fileArray),
                      processedFiles |-> ing.processedFiles,
                      ignoredFiles |-> ing.ignoredFiles,
                      nodeModulesIgnored |-> ing.nodeModulesIgnored,
                      totalSize |-> ing.totalSize]
  /\ UNCHANGED <<quota, phase, activeFiles, activeFileId>>
  /\ UNCHANGED <<fsVars, batch, uploadedFiles, xVars>>

\* saveCurrentProject, lines 577-606, for a name the prompt returned
saveCurrentProject(projectName) ==
  /\ phase = "mounted"
  /\ now < MaxClock
  /\ Len(savedProjects) < MaxProjects
  /\ currentProject # <<>>
  /\ LET t == now + 1
         savedProject ==
           [shape |-> "project", id |-> t, name |-> projectName, files |-> currentProject,
            lastOpened |-> Date(t), createdAt |-> Date(t),
            totalSize |-> 2 + nodesLength(stringifyNodes(currentProject))]
         projects == <<savedProject>> \o savedProjects
         w == persistEffect(store, quota, projects)
     IN /\ now' = t
        /\ savedProjects' = projects
        /\ store' = w.store
        /\ last' = Observed("save", w, savedProject.id, FALSE)
  /\ UNCHANGED <<quota, phase, currentProject, activeFiles, activeFileId>>
  /\ UNCHANGED <<fsVars, inVars, xVars>>

\* loadProject whose map gives every project the new lastOpened
loadProject_touchAll(project) ==
  /\ phase = "mounted"
  /\ now < MaxClock
  /\ LET t == now + 1
         projects == [i \in 1..Len(savedProjects) |->
                        [savedProjects[i] EXCEPT !.lastOpened = Date(t)]]
         w == persistEffect(store, quota, projects)
     IN /\ now' = t
        /\ currentProject' = project.files
        /\ savedProjects' = projects
        /\ store' = w.store
        /\ last' = Observed("load", w, project.id, FALSE)
  /\ UNCHANGED <<quota, phase, activeFiles, activeFileId>>
  /\ UNCHANGED <<fsVars, inVars, xVars>>

\* loadProject, lines 552-567
loadProject(project) ==
  /\ phase = "mounted"
  /\ now < MaxClock
  /\ LET t == now + 1
         projects == [i \in 1..Len(savedProjects) |->
                        IF savedProjects[i].id = project.id
                        THEN [savedProjects[i] EXCEPT !.lastOpened = Date(t)]
                        ELSE savedProjects[i]]
         w == persistEffect(store, quota, projects)
     IN /\ now' = t
        /\ currentProject' = project.files
        /\ savedProjects' = projects
        /\ store' = w.store
        /\ last' = Observed("load", w, project.id, FALSE)
  /\ UNCHANGED <<quota, phase, activeFiles, activeFileId>>
  /\ UNCHANGED <<fsVars, inVars, xVars>>

\* deleteProject, lines 569-575
deleteProject(projectId) ==
  /\ phase = "mounted"
  /\ LET projects == SelectSeq(savedProjects, LAMBDA p : p.id # projectId)
         w == persistEffect(store, quota, projects)
     IN /\ savedProjects' = projects
        /\ store' = w.store
        /\ last' = Observed("delete", w, projectId, FALSE)
  /\ UNCHANGED <<quota, phase, currentProject, now, activeFiles, activeFileId>>
  /\ UNCHANGED <<fsVars, inVars, xVars>>

\* the text an opened file shows when its node has no content, line 363
LoadingText == Text(20, 0)
\* what the user types into the editor
EditedText == Text(7, 0)

\* handleFileSelect, lines 348-372, for a file node of the project
handleFileSelect(file) ==
  /\ phase = "mounted"
  /\ file.type = "file"
  /\ IF \E k \in 1..Len(activeFiles) : activeFiles[k].path = file.path
     THEN /\ activeFileId' =
               <<activeFiles[CHOOSE k \in 1..Len(activeFiles) :
                               /\ activeFiles[k].path = file.path
                               /\ \A m \in 1..(k - 1) : activeFiles[m].path # file.path].id>>
          /\ UNCHANGED activeFiles
     ELSE /\ Len(activeFiles) < MaxOpen
          /\ activeFiles' =
               Append(activeFiles,
                      [id |-> file.id, name |-> file.name, path |-> file.path,
                       content |-> IF file.content.has /\ file.content.len > 0
                                   THEN file.content ELSE LoadingText,
                       isModified |-> FALSE, lastModified |-> file.lastModified])
          /\ activeFileId' = <<file.id>>
  /\ last' = Observed("select", NotCalled, 0, FALSE)
  /\ UNCHANGED <<store, quota, savedProjects, currentProject, now, phase>>
  /\ UNCHANGED <<fsVars, inVars, xVars>>

\* handleFileChange, lines 338-346
handleFileChange(fileId, newContent) ==
  /\ phase = "mounted"
  /\ activeFiles' = [k \in 1..Len(activeFiles) |->
                       IF activeFiles[k].id = fileId
                       THEN [activeFiles[k] EXCEPT !.content = newContent, !.isModified = TRUE]
                       ELSE activeFiles[k]]
  /\ last' = Observed("change", NotCalled, 0, FALSE)
  /\ UNCHANGED <<store, quota, savedProjects, currentProject, now, phase, activeFileId>>
  /\ UNCHANGED <<fsVars, inVars, xVars>>

NextStore ==
  \/ Mount
  \/ \E fileArray \in Uploads : Upload(fileArray)
  \/ saveCurrentProject("saved")
  \/ \E i \in 1..Len(savedProjects) : loadProject(savedProjects[i])
  \/ \E i \in 1..Len(savedProjects) : deleteProject(savedProjects[i].id)

SpecStore == InitStore /\ [][NextStore]_vars

(***************************************************************************)
(* CodeEditor over a stored list of two projects: opening projects and     *)
(* files, editing, saving, deleting                                        *)
(***************************************************************************)
InitEditor ==
  /\ Quiet
  /\ store = compressData(<<uploadedProject(UploadSmall, 1),
                            [uploadedProject(UploadMedium, 2) EXCEPT !.name = "other"]>>)
  /\ quota \in {QuotaSmall + 2 * MiB, QuotaLarge}
  /\ savedProjects = <<>>
  /\ currentProject = <<>>
  /\ now = 10
  /\ phase = "init"
  /\ last = [op |-> "none", ret |-> FALSE, toast |-> "not called", storeBefore |-> store,
             newId |-> 0, threw |-> FALSE]
  /\ activeFiles = <<>>
  /\ activeFileId = <<>>
  /\ files = <<>>
  /\ expandedFolders = {}
  /\ selectedFiles = {}
  /\ fsLast = NoCall
  /\ fsRepeated = FALSE
  /\ fsCalls = 0
  /\ NoIngestion

NextEditor ==
  \/ Mount
  \/ Upload(UploadSmall)
  \/ saveCurrentProject("saved")
  \/ \E i \in 1..Len(savedProjects) : loadProject(savedProjects[i])
  \/ \E i \in 1..Len(savedProjects) : deleteProject(savedProjects[i].id)
  \/ \E k \in 1..Len(FileNodes(currentProject)) : handleFileSelect(FileNodes(currentProject)[k])
  \/ \E k \in 1..Len(activeFiles) : handleFileChange(activeFiles[k].id, EditedText)

SpecEditor == InitEditor /\ [][NextEditor]_vars

(***************************************************************************)
(* handleDirectoryUpload step by step: the call is suspended at every      *)
(* `await file.text()` (line 482) and other handlers run meanwhile         *)
(***************************************************************************)
\* the iteration for this file reaches the await of line 482
Suspends(file) ==
  /\ ~(\E k \in 1..Len(file.path) : file.path[k] = "node_modules")
  /\ ~shouldIgnoreFile(file.path, file.size)
  /\ CodeEditorReadsText(file)

\* the index of the first file from index i on whose iteration awaits, one
\* past the end when there is none
NextAwait(fileArray, i) ==
  LET awaiting == {k \in i..Len(fileArray) : Suspends(fileArray[k])}
  IN IF awaiting = {} THEN Len(fileArray) + 1
     ELSE CHOOSE k \in awaiting : \A m \in awaiting : k <= m

\* the iterations for the files i..j, none of which awaits
IngestRange(st, fileArray, i, j, t) == IngestFrom(st, SubSeq(fileArray, i, j), 1, t)

\* lines 395-482: the call runs up to its first await
UploadBegin(fileArray) ==
  /\ phase = "mounted"
  /\ pending.pc = "idle"
  /\ Len(savedProjects) < MaxProjects
  /\ NextAwait(fileArray, 1) <= Len(fileArray)
  /\ LET j == NextAwait(fileArray, 1)
     IN pending' = [pc |-> "reading", fileArray |-> fileArray, i |-> j,
                    st |-> IngestRange(EmptyIngest, fileArray, 1, j - 1, now),
                    t |-> now, closure |-> savedProjects]
  /\ UNCHANGED <<ceVars, fsVars, inVars, fbVars, coVars>>

\* the state of the loop when the awaited read has settled and the loop has
\* run on to index j
Resumed(j) ==
  IngestRange(IngestOne(pending.st, pending.fileArray[pending.i], pending.t),
              pending.fileArray, pending.i + 1, j - 1, now)

\* lines 482-512: the awaited read settles and the loop runs to its next await
UploadResume ==
  /\ pending.pc = "reading"
  /\ LET j == NextAwait(pending.fileArray, pending.i + 1)
     IN /\ j <= Len(pending.fileArray)
        /\ pending' = [pending EXCEPT !.i = j, !.st = Resumed(j), !.t = now]
  /\ UNCHANGED <<ceVars, fsVars, inVars, fbVars, coVars>>

\* UploadFinish that puts the new project before the list the call started with
UploadFinish_stale ==
  /\ pending.pc = "reading"
  /\ now < MaxClock
  /\ NextAwait(pending.fileArray, pending.i + 1) > Len(pending.fileArray)
  /\ LET t == now + 1
         ing == Resumed(Len(pending.fileArray) + 1)
         savedProject == projectOfIngest(ing, pending.fileArray, t)
         projects == <<savedProject>> \o pending.closure
         w == persistEffect(store, quota, projects)
     IN /\ now' = t
        /\ currentProject' = savedProject.files
        /\ savedProjects' = projects
        /\ store' = w.store
        /\ last' = Observed("upload", w, savedProject.id, FALSE)
        /\ report' = [by |-> "handleDirectoryUpload", candidates |-> Len(pending.fileArray),
                      processedFiles |-> ing.processedFiles,
                      ignoredFiles |-> ing.ignoredFiles,
                      nodeModulesIgnored |-> ing.nodeModulesIgnored,
                      totalSize |-> ing.totalSize]
        /\ pending' = [NoPending EXCEPT !.closure = pending.closure]
  /\ UNCHANGED <<quota, phase, activeFiles, activeFileId>>
  /\ UNCHANGED <<fsVars, batch, uploadedFiles, fbVars, coVars>>

\* lines 482-550: the last awaited read settles, the loop ends, and
\* setSavedProjects(prev => [savedProject, ...prev]) runs on the list of now
UploadFinish ==
  /\ pending.pc = "reading"
  /\ now < MaxClock
  /\ NextAwait(pending.fileArray, pending.i + 1) > Len(pending.fileArray)
  /\ LET t == now + 1
         ing == Resumed(Len(pending.fileArray) + 1)
         savedProject == projectOfIngest(ing, pending.fileArray, t)
         projects == <<savedProject>> \o savedProjects
         w == persistEffect(store, quota, projects)
     IN /\ now' = t
        /\ currentProject' = savedProject.files
        /\ savedProjects' = projects
        /\ store' = w.store
        /\ last' = Observed("upload", w, savedProject.id, FALSE)
        /\ report' = [by |-> "handleDirectoryUpload", candidates |-> Len(pending.fileArray),
                      processedFiles |-> ing.processedFiles,
                      ignoredFiles |-> ing.ignoredFiles,
                      nodeModulesIgnored |-> ing.nodeModulesIgnored,
                      totalSize |-> ing.totalSize]
        /\ pending' = [NoPending EXCEPT !.closure = pending.closure]
  /\ UNCHANGED <<quota, phase, activeFiles, activeFileId>>
  /\ UNCHANGED <<fsVars, batch, uploadedFiles, fbVars, coVars>>

NextAsync ==
  \/ Mount
  \/ \E fileArray \in {UploadSmall, UploadMedium} : UploadBegin(fileArray)
  \/ UploadResume
  \/ UploadFinish
  \/ \E i \in 1..Len(savedProjects) : loadProject(savedProjects[i])
  \/ \E i \in 1..Len(savedProjects) : deleteProject(savedProjects[i].id)

SpecAsync == InitEditor /\ [][NextAsync]_vars

(***************************************************************************)
(* Persistence claims                                                      *)
(***************************************************************************)
StoredProjects(st) == IF st.kind = "array" THEN st.elems ELSE <<>>
StoredIds(st) == {StoredProjects(st)[i].id : i \in 1..Len(StoredProjects(st))}
WellFormedList(st) ==
  /\ st.kind = "array"
  /\ \A i \in 1..Len(st.elems) : st.elems[i].shape = "project"
DistinctLastOpened(st) ==
  \A i, j \in 1..Len(StoredProjects(st)) :
    i # j => StoredProjects(st)[i].lastOpened.ms # StoredProjects(st)[j].lastOpened.ms
\* the stored projects no other stored project was opened before
OldestIds(st) ==
  {StoredProjects(st)[i].id : i \in
     {k \in 1..Len(StoredProjects(st)) :
        \A j \in 1..Len(StoredProjects(st)) :
          StoredProjects(st)[k].lastOpened.ms <= StoredProjects(st)[j].lastOpened.ms}}
RemovedIds == StoredIds(last.storeBefore) \ StoredIds(store)
QuotaFailed == last.toast = "Storage full"
AddedProject == last.op \in {"upload", "save"}
\* the list that was being saved, without the projects the policy evicts
ListAfterEviction ==
  SelectSeq(savedProjects, LAMBDA p : p.id \notin OldestIds(last.storeBefore))
FitsStore(projects) ==
  /\ BlobSize(compressData(projects)) <= MAX_PROJECT_SIZE
  /\ BlobSize(compressData(projects)) <= quota

\* C1: when the write of a valid-size list fails on quota, save evicts the
\* stored project with the oldest lastOpened and retries once; if the retry
\* fits, the store then holds the new project and not the evicted one.
C1_EvictThenRetryStoresNew ==
  ( /\ AddedProject /\ QuotaFailed
    /\ WellFormedList(last.storeBefore) /\ Len(last.storeBefore.elems) >= 1
    /\ DistinctLastOpened(last.storeBefore)
    /\ FitsStore(ListAfterEviction) )
  => /\ last.newId \in StoredIds(store)
     /\ OldestIds(last.storeBefore) \cap StoredIds(store) = {}

\* C2: with at least two stored projects of different lastOpened, a write that
\* fails on quota removes from the store exactly the project with the earliest
\* lastOpened, and never the project that is being added by the save.
C2_EvictionPicksOldest ==
  ( /\ QuotaFailed
    /\ WellFormedList(last.storeBefore) /\ Len(last.storeBefore.elems) >= 2
    /\ DistinctLastOpened(last.storeBefore) )
  => /\ RemovedIds = OldestIds(last.storeBefore)
     /\ Cardinality(RemovedIds) = 1
     /\ Len(StoredProjects(store)) = Len(last.storeBefore.elems) - 1
     /\ AddedProject => last.newId \notin RemovedIds

C2_Witness ==
  /\ AddedProject /\ QuotaFailed
  /\ WellFormedList(last.storeBefore) /\ Len(last.storeBefore.elems) >= 2
  /\ DistinctLastOpened(last.storeBefore)
  /\ RemovedIds # {}

\* C3: every write that fails on quota and finds at least one project in the
\* store removes exactly one stored project, also when the store holds a
\* single project, and one save never evicts more than one.
C3_ExactlyOneEviction ==
  ( /\ QuotaFailed
    /\ WellFormedList(last.storeBefore) /\ Len(last.storeBefore.elems) >= 1 )
  => /\ WellFormedList(store)
     /\ Len(store.elems) = Len(last.storeBefore.elems) - 1

\* C4: safeSetItem never writes a value whose serialised size exceeds
\* MAX_PROJECT_SIZE: for such a value it returns false and the store holds
\* what it held before the call.
C4_SizeCeiling ==
  /\ store.kind = "array" => BlobSize(store) <= MAX_PROJECT_SIZE
  /\ ( /\ last.toast # "not called"
       /\ BlobSize(compressData(savedProjects)) > MAX_PROJECT_SIZE )
     => /\ last.ret = FALSE
        /\ last.toast = "Project too large"
        /\ store = last.storeBefore

C4_Witness ==
  /\ last.toast = "Project too large"
  /\ BlobSize(compressData(savedProjects)) > MAX_PROJECT_SIZE
  /\ BlobSize(compressData(savedProjects)) <= quota
  /\ store = last.storeBefore

\* C5: whatever string is under the key (unparseable text, or JSON that is not
\* an array of well-formed projects), loading on mount throws nothing and
\* treats the data as absent: savedProjects stays empty.
C5_CorruptDataIsAbsence ==
  (last.op = "mount" /\ ~WellFormedList(last.storeBefore))
  => /\ ~last.threw
     /\ phase = "mounted"
     /\ savedProjects = <<>>

(***************************************************************************)
(* Project claims                                                          *)
(***************************************************************************)
\* the sum of content.length over the file nodes of a tree
ContentLength(items) ==
  SumSeq([k \in 1..Len(FileNodes(items)) |->
            IF FileNodes(items)[k].content.has THEN FileNodes(items)[k].content.len ELSE 0])

\* C16: the project handleDirectoryUpload or saveCurrentProject adds to
\* savedProjects has totalSize equal to the sum of content.length over the
\* file nodes of its files.
C16_TotalSizeIsContentSum ==
  AddedProject => savedProjects[1].totalSize = ContentLength(savedProjects[1].files)

IsTimestamp(x) == x.k = "date"

\* C17: after the list is loaded from the store, lastOpened and createdAt of
\* every project and lastModified of every node at every depth of its files
\* are timestamps, not their serialised strings.
C17_DatesReconstituted ==
  (last.op = "mount" /\ phase = "mounted")
  => \A i \in 1..Len(savedProjects) :
       /\ IsTimestamp(savedProjects[i].lastOpened)
       /\ IsTimestamp(savedProjects[i].createdAt)
       /\ \A k \in 1..Len(AllNodes(savedProjects[i].files)) :
            IsTimestamp(AllNodes(savedProjects[i].files)[k].lastModified)

\* C18: loadProject(p) gives the project with p's id the lastOpened of the
\* call and changes nothing else of the list; mount lists the stored projects
\* with the lastOpened they were stored with; no other step (upload, save,
\* delete, opening or editing a file) changes a project that stays in the list.
C18_LastOpenedFrame ==
  [][ /\ \A i \in 1..Len(savedProjects), j \in 1..Len(savedProjects') :
           savedProjects[i].id = savedProjects'[j].id
           => IF last'.op = "load" /\ savedProjects[i].id = last'.newId
              THEN /\ savedProjects'[j] = [savedProjects[i] EXCEPT !.lastOpened = Date(now')]
                   /\ now' = now + 1
              ELSE savedProjects'[j] = savedProjects[i]
      /\ last'.op = "load"
         => /\ Len(savedProjects') = Len(savedProjects)
            /\ \A i \in 1..Len(savedProjects) : savedProjects'[i].id = savedProjects[i].id
      /\ (last'.op = "mount" /\ phase' = "mounted" /\ phase = "init")
         => /\ Len(savedProjects') = Len(StoredProjects(store))
            /\ \A j \in 1..Len(savedProjects') :
                 savedProjects'[j].lastOpened = NewDate(store.elems[j].lastOpened)
    ]_vars

\* a project was loaded while the list held another one, after files were
\* opened and edited
C18_Witness ==
  /\ last.op = "load"
  /\ Len(savedProjects) >= 2
  /\ \E i, j \in 1..Len(savedProjects) :
       /\ savedProjects[i].id = last.newId
       /\ savedProjects[i].lastOpened = Date(now)
       /\ savedProjects[j].lastOpened # Date(now)
  /\ \E k \in 1..Len(activeFiles) : activeFiles[k].isModified

(***************************************************************************)
(* ProjectUploader: processFiles, lines 46-103, and convertToFileSystem,   *)
(* lines 119-182                                                           *)
(***************************************************************************)
UploaderReadsText(file) ==
  file.type = "text/plain" \/ file.path[Len(file.path)] \in UploaderTextNames

\* processOne with the dot test of line 64 only
processOne_dotOnly(file) ==
  IF \E i \in 1..Len(file.path) : file.path[i] \in DotSegments
  THEN <<>>
  ELSE IF UploaderReadsText(file) /\ file.throws
  THEN <<[file |-> file, path |-> <<file.path[Len(file.path)]>>,
          content |-> NoContent, error |-> TRUE]>>
  ELSE <<[file |-> file, path |-> file.path,
          content |-> IF UploaderReadsText(file) THEN file.content ELSE NoContent,
          error |-> FALSE]>>

\* one iteration of the loop of line 54: the entries pushed for this file
processOne(file) ==
  IF \E i \in 1..Len(file.path) :
       file.path[i] = "node_modules" \/ file.path[i] \in DotSegments
  THEN <<>>
  ELSE IF UploaderReadsText(file) /\ file.throws
  THEN <<[file |-> file, path |-> <<file.path[Len(file.path)]>>,
          content |-> NoContent, error |-> TRUE]>>
  ELSE <<[file |-> file, path |-> file.path,
          content |-> IF UploaderReadsText(file) THEN file.content ELSE NoContent,
          error |-> FALSE]>>

RECURSIVE processFiles(_)
processFiles(fileArray) ==
  IF fileArray = <<>> THEN <<>>
  ELSE processOne(Head(fileArray)) \o processFiles(Tail(fileArray))

\* lines 128-154: currentPath grows by one segment an iteration, and the
\* folder is pushed to the root array when parentPath is the empty string
RECURSIVE convertFolders(_, _, _, _)
convertFolders(st, pathParts, i, t) ==
  IF i > Len(pathParts) - 1 THEN st
  ELSE LET currentPath == SubSeq(pathParts, 1, i)
           folder == FolderNode(currentPath, Date(t))
           st1 == IF currentPath \in st.mapFolders \cup st.mapFiles THEN st
                  ELSE [st EXCEPT
                         !.mapFolders = @ \cup {currentPath},
                         !.projectFiles =
                            IF i = 1 THEN Append(@, folder)
                            ELSE PushToParent(st, SubSeq(pathParts, 1, i - 1), folder)]
       IN convertFolders(st1, pathParts, i + 1, t)

\* the body of uploadedFiles.forEach, lines 123-179
convertOne(st, uploadedFile, t) ==
  LET pathParts == uploadedFile.path
      st1 == convertFolders(st, pathParts, 1, t)
      file == FileNode(pathParts, uploadedFile.file.size,
                       Date(uploadedFile.file.lastModified), uploadedFile.content)
      st2 == [st1 EXCEPT !.mapFiles = @ \cup {pathParts}, !.mapFolders = @ \ {pathParts}]
  IN [st2 EXCEPT !.projectFiles =
        IF Len(pathParts) = 1 THEN Append(@, file)
        ELSE PushToParent(st2, SubSeq(pathParts, 1, Len(pathParts) - 1), file)]

RECURSIVE convertFrom(_, _, _, _)
convertFrom(st, entries, i, t) ==
  IF i > Len(entries) THEN st
  ELSE LET next == convertOne(st, entries[i], t)
       IN IF next = next THEN convertFrom(next, entries, i + 1, t) ELSE st

\* the tree convertToFileSystem makes of the entries of uploadedFiles
convertToFileSystem(entries, t) ==
  convertFrom(EmptyIngest, entries, 1, t).projectFiles

(***************************************************************************)
(* Bulk ingestion of a chosen directory by either path                     *)
(***************************************************************************)
MaxBatch == 3        \* files of a chosen directory

\* the files a chosen directory may hold: the three of the spec's scenario A,
\* files under dot folders, files over and at MAX_FILE_SIZE, a file whose
\* text() rejects
Candidates ==
  << File(<<"src", "app.ts">>, 500, Text(500, 0), FALSE),
    File(<<"src", "node_modules", "lib", "index.js">>, 200, Text(200, 0), FALSE),
    File(<<"README.md">>, 1024, Text(1024, 0), FALSE),
    File(<<"src", ".hidden", "util.ts">>, 100, Text(100, 0), FALSE),
    File(<<".git", "config">>, 50, NoContent, FALSE),
    File(<<"src", "big.ts">>, MAX_FILE_SIZE + 1, Text(MAX_FILE_SIZE + 1, 0), FALSE),
    File(<<"src", "exact.ts">>, MAX_FILE_SIZE, Text(MAX_FILE_SIZE, 0), FALSE),
    File(<<"src", "notes.txt">>, 10, NoContent, TRUE) >>

\* a FileList: up to MaxBatch of these files, in the order of the listing
Batches ==
  UNION { { [i \in 1..n |-> Candidates[pick[i]]] :
              pick \in { f \in [1..n -> 1..Len(Candidates)] :
                           \A i, j \in 1..n : i < j => f[i] < f[j] } }
          : n \in 1..MaxBatch }

InitIngest ==
  /\ Quiet
  /\ IdleEditor
  /\ files = <<>>
  /\ expandedFolders = {}
  /\ selectedFiles = {}
  /\ fsLast = NoCall
  /\ fsRepeated = FALSE
  /\ fsCalls = 0
  /\ batch \in Batches
  /\ uploadedFiles = <<>>
  /\ report = NoReport

\* ProjectUploader.handleDirectoryUpload, lines 112-117: processFiles(files)
ProjectUploader_handleDirectoryUpload ==
  /\ Len(batch) > 0
  /\ uploadedFiles' = processFiles(batch)
  /\ report' = [NoReport EXCEPT !.by = "processFiles", !.candidates = Len(batch),
                                !.processedFiles = Len(uploadedFiles')]
  /\ UNCHANGED <<ceVars, fsVars, batch, xVars>>

\* removeFile, lines 190-192
removeFile(index) ==
  /\ uploadedFiles' = [i \in 1..(Len(uploadedFiles) - 1) |->
                         IF i < index THEN uploadedFiles[i] ELSE uploadedFiles[i + 1]]
  /\ report' = [report EXCEPT !.by = "removeFile"]
  /\ UNCHANGED <<ceVars, fsVars, batch, xVars>>

\* handleImportProject, lines 184-188: the button is rendered while
\* uploadedFiles is not empty; onProjectUpload is Index.handleProjectUpload
\* (Index.tsx 42-45), onClose unmounts the uploader
handleImportProject ==
  /\ Len(uploadedFiles) > 0
  /\ files' = convertToFileSystem(uploadedFiles, now)
  /\ report' = [NoReport EXCEPT !.by = "handleImportProject",
                                !.candidates = Len(batch),
                                !.processedFiles = Len(uploadedFiles)]
  /\ uploadedFiles' = <<>>
  /\ UNCHANGED <<ceVars, batch, xVars>>
  /\ UNCHANGED <<expandedFolders, selectedFiles, fsLast, fsRepeated, fsCalls>>

NextIngest ==
  \/ /\ Len(batch) > 0
     /\ Upload(batch)
  \/ ProjectUploader_handleDirectoryUpload
  \/ \E index \in 1..Len(uploadedFiles) : removeFile(index)
  \/ handleImportProject

SpecIngest == InitIngest /\ [][NextIngest]_vars

(***************************************************************************)
(* Ingestion claims.  currentProject is the tree of CodeEditor's           *)
(* handleDirectoryUpload, files the tree ProjectUploader imported.         *)
(***************************************************************************)
HasSegment(path, segment) == \E i \in 1..Len(path) : path[i] = segment
HasDotSegment(path) == \E i \in 1..Len(path) : path[i] \in DotSegments
NodePaths(items) == {AllNodes(items)[i].path : i \in 1..Len(AllNodes(items))}
NodeNames(items) == {AllNodes(items)[i].name : i \in 1..Len(AllNodes(items))}
\* both ingestion paths ran over the chosen directory
BothIngested == savedProjects # <<>> /\ report.by = "handleImportProject"

\* C11: a candidate whose path has a segment equal to node_modules has no
\* node with that path in the tree of either ingestion path.
C11_NoNodeModules ==
  \A i \in 1..Len(batch) :
    HasSegment(batch[i].path, "node_modules")
    => batch[i].path \notin NodePaths(currentProject) \cup NodePaths(files)

C11_Witness ==
  /\ BothIngested
  /\ \E i \in 1..Len(batch) : HasSegment(batch[i].path, "node_modules")
  /\ currentProject # <<>> /\ files # <<>>

\* C12: a candidate whose path has a segment beginning with '.' has no node
\* in the tree of either ingestion path.
C12_NoDotSegments ==
  \A i \in 1..Len(batch) :
    HasDotSegment(batch[i].path)
    => batch[i].path \notin NodePaths(currentProject) \cup NodePaths(files)

\* the candidates a path admits when no read throws
AdmittedByCodeEditor(file) ==
  ~HasSegment(file.path, "node_modules") /\ ~shouldIgnoreFile(file.path, file.size)
AdmittedByUploader(file) ==
  ~HasSegment(file.path, "node_modules") /\ ~HasDotSegment(file.path)

\* C13: a file whose read throws has no node with its id or its name in the
\* tree of either path, and the other candidates of the batch are processed.
C13_ThrowingReadExcluded ==
  /\ \A i \in 1..Len(batch) :
       batch[i].throws
       => /\ batch[i].path \notin NodeIds(currentProject) \cup NodeIds(files)
          /\ <<batch[i].path[Len(batch[i].path)]>> \notin NodeIds(files)
          /\ batch[i].path[Len(batch[i].path)]
               \notin NodeNames(currentProject) \cup NodeNames(files)
  /\ report.by = "handleDirectoryUpload"
     => \A i \in 1..Len(batch) :
          (AdmittedByCodeEditor(batch[i]) /\ ~batch[i].throws)
          => batch[i].path \in NodePaths(currentProject)
  /\ report.by = "processFiles"
     => \A i \in 1..Len(batch) :
          (AdmittedByUploader(batch[i]) /\ ~batch[i].throws)
          => \E k \in 1..Len(uploadedFiles) : uploadedFiles[k].path = batch[i].path

\* C14: no file node of a tree of either path is larger than MAX_FILE_SIZE,
\* and a file of exactly MAX_FILE_SIZE is not rejected for its size.
C14_FileSizeCeiling ==
  /\ \A k \in 1..Len(FileNodes(currentProject)) :
       FileNodes(currentProject)[k].size <= MAX_FILE_SIZE
  /\ \A k \in 1..Len(FileNodes(files)) : FileNodes(files)[k].size <= MAX_FILE_SIZE
  /\ report.by = "handleDirectoryUpload"
     => \A i \in 1..Len(batch) :
          (batch[i].size = MAX_FILE_SIZE /\ ~IGNORE_PATTERNS_match(batch[i].path)
             /\ ~batch[i].throws)
          => batch[i].path \in NodePaths(currentProject)

ScenarioA == <<Candidates[1], Candidates[2], Candidates[3]>>
NodeModulesCandidates == {i \in 1..Len(batch) : HasSegment(batch[i].path, "node_modules")}

\* C15: after handleDirectoryUpload every candidate is counted once:
\* processedFiles + ignoredFiles is the number of candidates, processedFiles
\* the number of file nodes made, nodeModulesIgnored the number of candidates
\* under node_modules, each of them in ignoredFiles too; scenario A reports
\* 2 processed, 1 ignored, 1 under node_modules.
C15_CountersAddUp ==
  (report.by = "handleDirectoryUpload" /\ report.candidates = Len(batch))
  => /\ report.processedFiles + report.ignoredFiles = Len(batch)
     /\ report.processedFiles = Len(FileNodes(currentProject))
     /\ report.nodeModulesIgnored = Cardinality(NodeModulesCandidates)
     /\ report.ignoredFiles >= report.nodeModulesIgnored
     /\ batch = ScenarioA
        => /\ report.processedFiles = 2
           /\ report.ignoredFiles = 1
           /\ report.nodeModulesIgnored = 1

C15_Witness ==
  /\ report.by = "handleDirectoryUpload"
  /\ batch = ScenarioA
  /\ report.processedFiles = 2 /\ report.nodeModulesIgnored = 1

(***************************************************************************)
(* useFileSystem (src/PROMPT_INTEGRATION_GUIDE.md, lines 507-800)          *)
(***************************************************************************)
\* findFileById, lines 712-724: the first node with that id in depth-first
\* order, as a sequence of at most one node (<<>> for null)
RECURSIVE findInTreeById(_, _, _)
findInTreeById(items, fileId, i) ==
  IF i > Len(items) THEN <<>>
  ELSE IF items[i].id = fileId THEN <<items[i]>>
  ELSE LET found == IF HasChildren(items[i])
                    THEN findInTreeById(items[i].children, fileId, 1)
                    ELSE <<>>
       IN IF found # <<>> THEN found
          ELSE findInTreeById(items, fileId, i + 1)

findFileById(items, fileId) == findInTreeById(items, fileId, 1)

\* removeFileById that filters the array it is given and leaves the children
\* of the nodes it keeps alone
removeFileById_shallow(items, fileId) ==
  SelectSeq(items, LAMBDA item : item.id # fileId)

\* removeFileById, lines 768-776: the array it returns
RECURSIVE removeFileById(_, _)
removeFileById(items, fileId) ==
  IF items = <<>> THEN <<>>
  ELSE IF Head(items).id = fileId THEN removeFileById(Tail(items), fileId)
  ELSE <<IF HasChildren(Head(items))
         THEN [Head(items) EXCEPT !.children = removeFileById(@, fileId)]
         ELSE Head(items)>>
       \o removeFileById(Tail(items), fileId)

\* removeFileById, lines 768-776: what the array it was given shows after the
\* call.  filter leaves that array alone, and line 772 assigns the filtered
\* children to every object of it that is not the one removed.
removeFileById_argument(items, fileId) ==
  [i \in 1..Len(items) |->
     IF items[i].id = fileId THEN items[i]
     ELSE IF HasChildren(items[i])
          THEN [items[i] EXCEPT !.children = removeFileById(@, fileId)]
          ELSE items[i]]

\* renameFileById that also gives the renamed node a path ending in the new name
RECURSIVE renameFileById_withPath(_, _, _)
renameFileById_withPath(items, fileId, newName) ==
  IF items = <<>> THEN <<>>
  ELSE <<IF Head(items).id = fileId
         THEN [Head(items) EXCEPT
                 !.name = newName,
                 !.path = Append(SubSeq(Head(items).path, 1, Len(Head(items).path) - 1),
                                 newName)]
         ELSE IF HasChildren(Head(items))
              THEN [Head(items) EXCEPT
                      !.children = renameFileById_withPath(@, fileId, newName)]
              ELSE Head(items)>>
       \o renameFileById_withPath(Tail(items), fileId, newName)

\* renameFileById, lines 778-788
RECURSIVE renameFileById(_, _, _)
renameFileById(items, fileId, newName) ==
  IF items = <<>> THEN <<>>
  ELSE <<IF Head(items).id = fileId THEN [Head(items) EXCEPT !.name = newName]
         ELSE IF HasChildren(Head(items))
              THEN [Head(items) EXCEPT !.children = renameFileById(@, fileId, newName)]
              ELSE Head(items)>>
       \o renameFileById(Tail(items), fileId, newName)

\* updateFileById, lines 790-800
RECURSIVE updateFileById(_, _)
updateFileById(items, updatedFile) ==
  IF items = <<>> THEN <<>>
  ELSE <<IF Head(items).id = updatedFile.id THEN updatedFile
         ELSE IF HasChildren(Head(items))
              THEN [Head(items) EXCEPT !.children = updateFileById(@, updatedFile)]
              ELSE Head(items)>>
       \o updateFileById(Tail(items), updatedFile)

\* parent.children.unshift(node) for the object at place loc
RECURSIVE unshiftChild(_, _, _)
unshiftChild(items, loc, node) ==
  IF Len(loc) = 1
  THEN [items EXCEPT ![loc[1]].children = <<node>> \o @]
  ELSE [items EXCEPT ![loc[1]].children = unshiftChild(@, Tail(loc), node)]

\* insertUnder with unshift in place of push
insertUnder_front(prev, path, node) ==
  LET parentFolder == findFolderByPath(prev, path) IN
  IF parentFolder # <<>> THEN unshiftChild(prev, parentFolder, node) ELSE prev

\* the updater of lines 567-575 and 602-610: push into the first folder with
\* that path, if there is one
insertUnder(prev, path, node) ==
  LET parentFolder == findFolderByPath(prev, path) IN
  IF parentFolder # <<>> THEN pushChild(prev, parentFolder, node) ELSE prev

\* a call, the tree and the expanded set it found, and what that tree's array
\* shows afterwards
Called(op, id, name, multiple, argAfter) ==
  [op |-> op, id |-> id, name |-> name, multiple |-> multiple, before |-> files,
   argAfter |-> argAfter, expanded |-> expandedFolders]

\* the call has the operation and the arguments of the call before it
Repeats(op, id, name, multiple) ==
  /\ fsLast.op = op /\ fsLast.id = id /\ fsLast.name = name /\ fsLast.multiple = multiple

\* createFile without a service, lines 554-578 (content = '')
createFile(name, path) ==
  /\ LET newFile == [FileNode(Append(path, name), 0, Date(now), Text(0, 0)) EXCEPT !.name = name]
     IN /\ files' = insertUnder(files, path, newFile)
        /\ fsLast' = Called("createFile", newFile.id, name, FALSE, files')
  /\ fsRepeated' = Repeats("createFile", Append(path, name), name, FALSE)
  /\ UNCHANGED <<expandedFolders, selectedFiles>>

\* createFolder without a service, lines 590-613
createFolder(name, path) ==
  /\ LET newFolder == [FolderNode(Append(path, name), Date(now)) EXCEPT !.name = name]
     IN /\ files' = insertUnder(files, path, newFolder)
        /\ fsLast' = Called("createFolder", newFolder.id, name, FALSE, files')
  /\ fsRepeated' = Repeats("createFolder", Append(path, name), name, FALSE)
  /\ UNCHANGED <<expandedFolders, selectedFiles>>

\* deleteFile without a service, lines 625-635
deleteFile(fileId) ==
  /\ files' = removeFileById(files, fileId)
  /\ selectedFiles' = selectedFiles \ {fileId}
  /\ fsLast' = Called("deleteFile", fileId, "", FALSE, removeFileById_argument(files, fileId))
  /\ fsRepeated' = Repeats("deleteFile", fileId, "", FALSE)
  /\ UNCHANGED expandedFolders

\* renameFile without a service, lines 651-656
renameFile(fileId, newName) ==
  /\ files' = renameFileById(files, fileId, newName)
  /\ fsLast' = Called("renameFile", fileId, newName, FALSE, files)
  /\ fsRepeated' = Repeats("renameFile", fileId, newName, FALSE)
  /\ UNCHANGED <<expandedFolders, selectedFiles>>

\* saveFile that adds the file at the root when no node has its id
saveFile_upsert(file) ==
  /\ files' = IF file.id \in NodeIds(files) THEN updateFileById(files, file)
              ELSE Append(files, file)
  /\ fsLast' = Called("saveFile", file.id, "", FALSE, files)
  /\ fsRepeated' = Repeats("saveFile", file.id, "", FALSE)
  /\ UNCHANGED <<expandedFolders, selectedFiles>>

\* saveFile without a service, lines 667-672
saveFile(file) ==
  /\ files' = updateFileById(files, file)
  /\ fsLast' = Called("saveFile", file.id, "", FALSE, files)
  /\ fsRepeated' = Repeats("saveFile", file.id, "", FALSE)
  /\ UNCHANGED <<expandedFolders, selectedFiles>>

\* the updater of toggleFolder that only ever adds
toggled_addOnly(prev, folderId) == prev \cup {folderId}

\* the updater of lines 684-692
toggled(prev, folderId) ==
  IF folderId \in prev THEN prev \ {folderId} ELSE prev \cup {folderId}

\* toggleFolder, lines 683-693
toggleFolder(folderId) ==
  /\ expandedFolders' = toggled(expandedFolders, folderId)
  /\ fsLast' = Called("toggleFolder", folderId, "", FALSE, files)
  /\ fsRepeated' = Repeats("toggleFolder", folderId, "", FALSE)
  /\ UNCHANGED <<files, selectedFiles>>

\* selectFile, lines 695-705
selectFile(fileId, multiple) ==
  /\ LET newSet == IF multiple THEN selectedFiles ELSE {}
     IN selectedFiles' = IF fileId \in newSet THEN newSet \ {fileId}
                         ELSE newSet \cup {fileId}
  /\ fsLast' = Called("selectFile", fileId, "", multiple, files)
  /\ fsRepeated' = Repeats("selectFile", fileId, "", multiple)
  /\ UNCHANGED <<files, expandedFolders>>

\* clearSelection, lines 707-709
clearSelection ==
  /\ selectedFiles' = {}
  /\ fsLast' = Called("clearSelection", <<>>, "", FALSE, files)
  /\ fsRepeated' = Repeats("clearSelection", <<>>, "", FALSE)
  /\ UNCHANGED <<files, expandedFolders>>

(***************************************************************************)
(* The hook over an uploaded tree: the tree operations                     *)
(***************************************************************************)
MaxCalls == 3        \* tree operations of a run

CreateNames == {"app.ts"}
NewNames == {"renamed"}
MissingPath == <<"nowhere">>
MissingId == <<"nowhere", "none">>

\* the files saveFile is called with: a file of the tree with the text the
\* user typed, and a file the tree does not have
SavedFiles(items) ==
  {[FileNodes(items)[k] EXCEPT !.content = EditedText] : k \in 1..Len(FileNodes(items))}
  \cup {FileNode(MissingId, 7, Date(10), EditedText)}

FolderPaths(items) ==
  {AllNodes(items)[i].path : i \in {k \in 1..Len(AllNodes(items)) : AllNodes(items)[k].type = "folder"}}

TreeUploads == {UploadSmall, UploadMedium}

\* the trees the two upload paths hand to the file browser
InitialTrees ==
  {handleDirectoryUpload_ingest(u, 10).projectFiles : u \in TreeUploads}
  \cup {convertToFileSystem(processFiles(u), 10) : u \in TreeUploads}

InitTree ==
  /\ Quiet
  /\ IdleEditor
  /\ files \in InitialTrees
  /\ expandedFolders = {}
  /\ selectedFiles = {}
  /\ fsLast = NoCall
  /\ fsRepeated = FALSE
  /\ fsCalls = 0
  /\ NoIngestion

Counted == fsCalls < MaxCalls /\ fsCalls' = fsCalls + 1 /\ UNCHANGED <<ceVars, inVars, xVars>>

NextTree ==
  \/ /\ \E name \in CreateNames, path \in FolderPaths(files) \cup {MissingPath} :
          createFile(name, path)
     /\ Counted
  \/ /\ \E name \in CreateNames, path \in FolderPaths(files) \cup {MissingPath} :
          createFolder(name, path)
     /\ Counted
  \/ /\ \E fileId \in NodeIds(files) \cup {MissingId} : deleteFile(fileId)
     /\ Counted
  \/ /\ \E fileId \in NodeIds(files) \cup {MissingId}, newName \in NewNames :
          renameFile(fileId, newName)
     /\ Counted
  \/ /\ \E file \in SavedFiles(files) : saveFile(file)
     /\ Counted

SpecTree == InitTree /\ [][NextTree]_vars

(***************************************************************************)
(* The hook over an uploaded tree: selection and expansion                 *)
(***************************************************************************)
SelectableIds == {<<"work", "app.ts">>, <<"work", "lib", "util.ts">>, MissingId}
ToggleableIds == {<<"work">>, <<"work", "lib">>}

InitSel ==
  /\ Quiet
  /\ IdleEditor
  /\ files = handleDirectoryUpload_ingest(UploadMedium, 10).projectFiles
  /\ expandedFolders = {}
  /\ selectedFiles = {}
  /\ fsLast = NoCall
  /\ fsRepeated = FALSE
  /\ fsCalls = 0
  /\ NoIngestion

NextSel ==
  \/ /\ \E fileId \in SelectableIds, multiple \in BOOLEAN : selectFile(fileId, multiple)
     /\ UNCHANGED <<ceVars, inVars, xVars, fsCalls>>
  \/ /\ \E folderId \in ToggleableIds : toggleFolder(folderId)
     /\ UNCHANGED <<ceVars, inVars, xVars, fsCalls>>
  \/ /\ clearSelection
     /\ UNCHANGED <<ceVars, inVars, xVars, fsCalls>>
  \/ /\ \E fileId \in NodeIds(files) \cup {MissingId} : deleteFile(fileId)
     /\ UNCHANGED <<ceVars, inVars, xVars, fsCalls>>

SpecSel == InitSel /\ [][NextSel]_vars

(***************************************************************************)
(* FileBrowser over the hook: the default-expansion effect and the         *)
(* handlers of the tree view                                               *)
(***************************************************************************)
\* one run of the effect of lines 328-337 for the set of its render: every
\* default folder that set lacks is toggled, each toggle on the set the one
\* before it left
RECURSIVE expandDefaults(_, _, _, _)
expandDefaults(defaults, i, rendered, prev) ==
  IF i > Len(defaults) THEN prev
  ELSE expandDefaults(defaults, i + 1, rendered,
                      IF defaults[i] \notin rendered THEN toggled(prev, defaults[i])
                      ELSE prev)

\* the effect of lines 328-337 with its dependency list: it runs again after
\* every render that has a new expandedFolders, until a run toggles nothing
RECURSIVE defaultExpansionEffect(_, _)
defaultExpansionEffect(defaults, expanded) ==
  LET next == expandDefaults(defaults, 1, expanded, expanded)
  IN IF next = expanded THEN expanded ELSE defaultExpansionEffect(defaults, next)

NewItemNames == {"new.ts"}
BlankNames == {"  "}
\* the parent path handleCreateItem passes: the empty string
EmptyPath == <<"">>

Configs ==
  {[allowMultipleSelection |-> m, defaultExpandedFolders |-> e] :
     m \in BOOLEAN, e \in {<<>>, <<<<"work">>>>, <<<<"work", "lib">>, <<"work">>>>}}

InitBrowser ==
  /\ IdleEditor
  /\ NoIngestion
  /\ config \in Configs
  /\ messages = <<>>
  /\ selectedPrompt = <<>>
  /\ error = "null"
  /\ prompts = <<>>
  /\ deepSeekConfigured = FALSE
  /\ pending = NoPending
  /\ files = handleDirectoryUpload_ingest(UploadMedium, 10).projectFiles
  /\ expandedFolders = expandDefaults(config.defaultExpandedFolders, 1, {}, {})
  /\ selectedFiles = {}
  /\ fsLast = NoCall
  /\ fsRepeated = FALSE
  /\ fsCalls = 0

\* handleFileClick, lines 339-347, and the effect after the render it causes
handleFileClick(file) ==
  /\ IF file.type = "folder"
     THEN /\ expandedFolders' =
               defaultExpansionEffect(config.defaultExpandedFolders,
                                      toggled(expandedFolders, file.id))
          /\ UNCHANGED selectedFiles
     ELSE /\ LET newSet == IF config.allowMultipleSelection THEN selectedFiles ELSE {}
             IN selectedFiles' = IF file.id \in newSet THEN newSet \ {file.id}
                                 ELSE newSet \cup {file.id}
          /\ UNCHANGED expandedFolders
  /\ fsLast' = Called("handleFileClick", file.id, "", config.allowMultipleSelection, files)
  /\ fsRepeated' = Repeats("handleFileClick", file.id, "", config.allowMultipleSelection)
  /\ UNCHANGED files

\* handleCreateItem, lines 356-372: createFile(newItemName, '', '') or
\* createFolder(newItemName, '')
handleCreateItem(newItemName, newItemType) ==
  /\ LET id == Append(EmptyPath, newItemName)
         node == IF newItemType = "file"
                 THEN [FileNode(id, 0, Date(now), Text(0, 0)) EXCEPT !.name = newItemName]
                 ELSE [FolderNode(id, Date(now)) EXCEPT !.name = newItemName]
     IN /\ files' = IF newItemName \in BlankNames THEN files
                    ELSE insertUnder(files, EmptyPath, node)
        /\ fsLast' = Called("handleCreateItem", id, newItemName, newItemType = "folder", files')
  /\ fsRepeated' = FALSE
  /\ UNCHANGED <<expandedFolders, selectedFiles>>

\* handleDeleteFile, lines 374-381
handleDeleteFile(fileId) == deleteFile(fileId)

NextBrowser ==
  \/ /\ \E k \in 1..Len(AllNodes(files)) : handleFileClick(AllNodes(files)[k])
     /\ UNCHANGED <<ceVars, inVars, xVars, fsCalls>>
  \/ /\ \E newItemName \in NewItemNames \cup BlankNames, newItemType \in {"file", "folder"} :
          handleCreateItem(newItemName, newItemType)
     /\ UNCHANGED <<ceVars, inVars, xVars, fsCalls>>
  \/ /\ \E fileId \in NodeIds(files) : handleDeleteFile(fileId)
     /\ UNCHANGED <<ceVars, inVars, xVars, fsCalls>>

SpecBrowser == InitBrowser /\ [][NextBrowser]_vars

(***************************************************************************)
(* useComposer over usePromptIntegration and the PromptManager             *)
(***************************************************************************)
MaxMessages == 2     \* messages the user sends in a conversation

NoVersion == "undefined"
Prompt(id, type, version) == [id |-> id, type |-> type, version |-> version]

\* promptFiles, part_001 lines 98-145, in the order they enter the Map
PromptFiles ==
  << Prompt("agent-v1.2", "agent", "1.2"), Prompt("agent-v1.0", "agent", "1.0"),
     Prompt("agent-main", "agent", "main"), Prompt("chat", "chat", NoVersion),
     Prompt("memory", "memory", NoVersion), Prompt("memory-rating", "memory", NoVersion),
     Prompt("tools-v1.0", "tools", "1.0") >>

\* the messages the user types, by the words their lower case includes
AgentContents == {"Refactor the parser", "fix the login bug"}
MemoryContents == {"recall my preferences"}
ChatContents == {"hello there"}
BlankContents == {"   "}
Contents == AgentContents \cup MemoryContents \cup ChatContents \cup BlankContents

\* lines 128-138
promptTypeOf(content) ==
  IF content \in AgentContents THEN "agent"
  ELSE IF content \in MemoryContents THEN "memory"
  ELSE "chat"

\* promptManager.getPromptsByType, part_001 lines 217-219
getPromptsByType(type) == SelectSeq(prompts, LAMBDA p : p.type = type)

\* array.find: <<element>> for the first element with that version, <<>> for
\* undefined
FindVersion(available, version) ==
  LET hits == SelectSeq(available, LAMBDA p : p.version = version)
  IN IF hits = <<>> THEN <<>> ELSE <<hits[1]>>

\* lines 143-146
bestPromptOf(promptType) ==
  LET availablePrompts == getPromptsByType(promptType) IN
  IF FindVersion(availablePrompts, "1.2") # <<>> THEN FindVersion(availablePrompts, "1.2")
  ELSE IF FindVersion(availablePrompts, "1.0") # <<>> THEN FindVersion(availablePrompts, "1.0")
  ELSE IF availablePrompts # <<>> THEN <<availablePrompts[1]>>
  ELSE <<>>

\* promptManager.getPrompt(id) || null
getPrompt(promptId) ==
  LET hits == SelectSeq(prompts, LAMBDA p : p.id = promptId)
  IN IF hits = <<>> THEN <<>> ELSE <<hits[1]>>

UserMessage(content) ==
  [role |-> "user", content |-> content, by |-> "user", generatedWith |-> <<>>,
   promptUsed |-> <<>>]

\* the assistant message of lines 187-194: what made its content, the prompt
\* that content was generated with, and the promptUsed it is labelled with
AssistantMessage(by, generatedWith, bestPrompt) ==
  [role |-> "assistant", content |-> "", by |-> by, generatedWith |-> generatedWith,
   promptUsed |-> bestPrompt]

\* generateResponse, usePromptIntegration.ts lines 62-78, as the callback
\* sendMessage holds: its state.selectedPrompt is that of the render
\* sendMessage was made in, not what selectPrompt has just set
generateResponse(closurePrompt, bestPrompt) ==
  IF closurePrompt = <<>> THEN [threw |-> TRUE, generatedWith |-> <<>>]
  ELSE [threw |-> FALSE, generatedWith |-> closurePrompt]

UserMessages == SelectSeq(messages, LAMBDA m : m.role = "user")

\* the mount effect of usePromptIntegration, lines 110-112, and
\* promptManager.loadPrompts
loadPrompts ==
  /\ prompts = <<>>
  /\ prompts' = PromptFiles
  /\ UNCHANGED <<messages, selectedPrompt, error, deepSeekConfigured>>

\* DeepSeekProvider.updateConfig with an apiKey or with none
updateConfig(hasKey) ==
  /\ deepSeekConfigured # hasKey
  /\ deepSeekConfigured' = hasKey
  /\ UNCHANGED <<messages, selectedPrompt, error, prompts>>

\* selectPrompt, usePromptIntegration.ts lines 54-60
selectPrompt(promptId) ==
  /\ selectedPrompt' = getPrompt(promptId)
  /\ UNCHANGED <<messages, error, prompts, deepSeekConfigured>>

\* sendMessage, useComposer.ts lines 109-211; requestFails is whether
\* deepSeekRequest rejects
sendMessage(content, requestFails) ==
  /\ Len(UserMessages) < MaxMessages
  /\ requestFails => deepSeekConfigured
  /\ IF content \in BlankContents
     THEN UNCHANGED <<messages, selectedPrompt, error>>
     ELSE LET bestPrompt == bestPromptOf(promptTypeOf(content))
              viaPrompt == generateResponse(selectedPrompt, bestPrompt)
              reply ==
                IF bestPrompt # <<>> /\ deepSeekConfigured /\ ~requestFails
                THEN <<AssistantMessage("deepSeekRequest", bestPrompt, bestPrompt)>>
                ELSE IF bestPrompt # <<>>
                THEN IF viaPrompt.threw THEN <<>>
                     ELSE <<AssistantMessage("generateResponse", viaPrompt.generatedWith,
                                             bestPrompt)>>
                ELSE <<AssistantMessage("generateAIResponse", <<>>, <<>>)>>
          IN /\ messages' = Append(messages, UserMessage(content)) \o reply
             /\ selectedPrompt' = IF bestPrompt # <<>> THEN getPrompt(bestPrompt[1].id)
                                  ELSE selectedPrompt
             /\ error' = IF reply = <<>> THEN "No prompt selected" ELSE "null"
  /\ UNCHANGED <<prompts, deepSeekConfigured>>

InitComposer ==
  /\ Quiet
  /\ IdleEditor
  /\ NoIngestion
  /\ files = <<>>
  /\ expandedFolders = {}
  /\ selectedFiles = {}
  /\ fsLast = NoCall
  /\ fsRepeated = FALSE
  /\ fsCalls = 0

Elsewhere == UNCHANGED <<ceVars, fsVars, inVars, fbVars, upVars>>

NextComposer ==
  \/ loadPrompts /\ Elsewhere
  \/ (\E hasKey \in BOOLEAN : updateConfig(hasKey)) /\ Elsewhere
  \/ (\E i \in 1..Len(prompts) : selectPrompt(prompts[i].id)) /\ Elsewhere
  \/ (\E content \in Contents, requestFails \in BOOLEAN : sendMessage(content, requestFails))
     /\ Elsewhere

SpecComposer == InitComposer /\ [][NextComposer]_vars

(***************************************************************************)
(* Hook claims                                                             *)
(***************************************************************************)
\* C6: selectFile(id, false) called twice in a row, with no other call
\* between, leaves selectedFiles empty, whatever the selection was before.
C6_SelectTwiceDeselects ==
  (fsLast.op = "selectFile" /\ ~fsLast.multiple /\ fsRepeated)
  => selectedFiles = {}

\* the node deleteFile's id named in the tree it was called on
DeletedNode == findFileById(fsLast.before, fsLast.id)
DeletedFolder ==
  /\ fsLast.op = "deleteFile"
  /\ DeletedNode # <<>>
  /\ DeletedNode[1].type = "folder"

\* C7: after deleteFile(id) of a folder, findFileById finds neither the folder
\* nor any node that was one of its descendants.
C7_RemoveIsComplete ==
  DeletedFolder => \A d \in NodeIds(DeletedNode) : findFileById(files, d) = <<>>

C7_Witness ==
  /\ DeletedFolder
  /\ \E i \in 1..Len(DeletedNode[1].children) :
       DeletedNode[1].children[i].type = "folder"
       /\ DeletedNode[1].children[i].children # <<>>
  /\ files # <<>>

\* C8: removeFileById leaves the tree it was given as it was: who holds the
\* array of before the call still sees every node, the removed one included.
C8_RemoveKeepsArgument ==
  fsLast.op = "deleteFile" => fsLast.argAfter = fsLast.before

\* C9: every child of a folder has the path of the folder, "/" and its name.
C9_ChildPaths ==
  \A i \in 1..Len(AllNodes(files)) :
    LET folder == AllNodes(files)[i] IN
    folder.type = "folder" =>
      \A j \in 1..Len(folder.children) :
        folder.children[j].path = Append(folder.path, folder.children[j].name)

\* C10: no two nodes of the tree have the same id.
C10_UniqueIds == Cardinality(NodeIds(files)) = Len(AllNodes(files))

\* the places of a tree: the indices from the roots down to each node
RECURSIVE Locs(_)
Locs(items) ==
  UNION { {<<i>>} \cup {<<i>> \o l : l \in Locs(items[i].children)} : i \in 1..Len(items) }

RECURSIVE NodeAt(_, _)
NodeAt(items, loc) ==
  IF Len(loc) = 1 THEN items[loc[1]] ELSE NodeAt(items[loc[1]].children, Tail(loc))

Created == fsLast.op \in {"createFile", "createFolder"}
\* the parentPath of the last create call
ParentPath == SubSeq(fsLast.id, 1, Len(fsLast.id) - 1)
\* where the tree of before the call has a folder with that path
ParentLocs ==
  {l \in Locs(fsLast.before) :
     /\ NodeAt(fsLast.before, l).type = "folder"
     /\ NodeAt(fsLast.before, l).path = ParentPath}

\* C19: createFile/createFolder(name, parentPath): when a folder with path
\* parentPath exists, one such folder gets the new node as its last child,
\* with path parentPath + "/" + name, its earlier children stay in their
\* order and nothing else changes; when none exists the tree is unchanged.
C19_CreateAppends ==
  Created =>
    IF ParentLocs = {} THEN files = fsLast.before
    ELSE \E l \in ParentLocs :
           LET old == NodeAt(fsLast.before, l)
               new == NodeAt(files, l)
               n == Len(old.children)
           IN /\ Len(new.children) = n + 1
              /\ SubSeq(new.children, 1, n) = old.children
              /\ new.children[n + 1].path = Append(ParentPath, fsLast.name)
              /\ new.children[n + 1].name = fsLast.name
              /\ new.children[n + 1].type =
                   (IF fsLast.op = "createFile" THEN "file" ELSE "folder")
              /\ files = pushChild(fsLast.before, l, new.children[n + 1])

C19_Witness ==
  /\ Created
  /\ \E l \in ParentLocs : Len(NodeAt(fsLast.before, l).children) >= 2
  /\ fsCalls >= 2

\* a node without its subtree
Own(node) == [node EXCEPT !.children = <<>>]

\* C20: renameFile(id, newName) changes the name of the nodes with that id and
\* nothing else: their id, path and children, and every field of every other
\* node (the paths of the descendants too) are as before.
C20_RenameChangesNameOnly ==
  fsLast.op = "renameFile" =>
    /\ Len(AllNodes(files)) = Len(AllNodes(fsLast.before))
    /\ \A k \in 1..Len(AllNodes(fsLast.before)) :
         LET b == AllNodes(fsLast.before)[k]
             a == AllNodes(files)[k]
         IN /\ Len(a.children) = Len(b.children)
            /\ Own(a) = IF b.id = fsLast.id THEN [Own(b) EXCEPT !.name = fsLast.name]
                        ELSE Own(b)

C20_Witness ==
  /\ fsLast.op = "renameFile"
  /\ \E k \in 1..Len(AllNodes(files)) :
       /\ AllNodes(files)[k].id = fsLast.id
       /\ AllNodes(files)[k].name = fsLast.name
       /\ AllNodes(files)[k].name # AllNodes(fsLast.before)[k].name
       /\ AllNodes(files)[k].children # <<>>

\* C21: deleteFile, renameFile and saveFile called with an id that no node of
\* the tree has leave the tree equal to the tree of before the call.
C21_MissingIdIsNoOp ==
  (/\ fsLast.op \in {"deleteFile", "renameFile", "saveFile"}
   /\ fsLast.id \notin NodeIds(fsLast.before))
  => files = fsLast.before

C21_Witness ==
  /\ fsLast.op = "saveFile"
  /\ fsLast.id \notin NodeIds(fsLast.before)
  /\ files # <<>>
  /\ \E k \in 1..Len(FileNodes(files)) : FileNodes(files)[k].content = EditedText

\* C22: toggleFolder(id) flips the membership of id in the expanded set and of
\* nothing else, so a second toggleFolder(id) right after the first gives back
\* the set the first one found, whatever the id and that set were.
C22_ToggleTwiceRestores ==
  [][ (fsLast'.op = "toggleFolder" /\ fsLast' # fsLast) =>
        /\ (expandedFolders' \ expandedFolders) \cup (expandedFolders \ expandedFolders')
             = {fsLast'.id}
        /\ (fsLast.op = "toggleFolder" /\ fsLast.id = fsLast'.id)
             => expandedFolders' = fsLast.expanded ]_vars

C22_Witness ==
  /\ fsLast.op = "toggleFolder"
  /\ fsRepeated
  /\ fsLast.id \in fsLast.expanded
  /\ fsLast.id \notin expandedFolders
  /\ expandedFolders # {}

(***************************************************************************)
(* FileBrowser claims                                                      *)
(***************************************************************************)
\* C23: handleCreateItem with a name that is not blank, for a file or a
\* folder, leaves a tree that has one node more and a node with that name.
C23_CreateItemAddsNode ==
  (fsLast.op = "handleCreateItem" /\ fsLast.name \notin BlankNames)
  => /\ Len(AllNodes(files)) = Len(AllNodes(fsLast.before)) + 1
     /\ fsLast.name \in NodeNames(files)

\* C29: a click on an expanded folder leaves it collapsed, and a folder that
\* is collapsed stays so in every step that is not a click on it, whether or
\* not config.defaultExpandedFolders lists it.
C29_CollapseSticks ==
  [][ \A f \in expandedFolders \cup expandedFolders' \cup NodeIds(files) :
        IF fsLast'.op = "handleFileClick" /\ fsLast' # fsLast /\ fsLast'.id = f
        THEN f \in expandedFolders => f \notin expandedFolders'
        ELSE f \notin expandedFolders => f \notin expandedFolders' ]_vars

(***************************************************************************)
(* Composer claims                                                         *)
(***************************************************************************)
\* the prompt type the documentation gives a message: agent for refactor,
\* implement and create requests, memory for remember, forget and recall
\* requests, chat for everything else
DocumentedType(content) ==
  IF content = "Refactor the parser" THEN "agent"
  ELSE IF content = "recall my preferences" THEN "memory"
  ELSE "chat"

\* C24: a message sent while the prompts are loaded and DeepSeek is not
\* configured, the first of a session included, is followed by an assistant
\* reply generated with the prompt selected for that message: a prompt of the
\* type the message's words call for, not the prompt of an earlier message.
C24_ReplyUsesOwnPrompt ==
  [][ (Len(messages') > Len(messages) /\ prompts # <<>> /\ ~deepSeekConfigured) =>
        LET n == Len(messages) IN
        /\ Len(messages') = n + 2
        /\ messages'[n + 1].role = "user"
        /\ messages'[n + 2].role = "assistant"
        /\ messages'[n + 2].generatedWith # <<>>
        /\ messages'[n + 2].generatedWith[1].type = DocumentedType(messages'[n + 1].content)
     ]_vars

(***************************************************************************)
(* Folder synthesis, deletion, eviction and round trip                     *)
(***************************************************************************)
\* the paths of the file nodes of a tree: the files that were admitted
AdmittedPaths(items) ==
  {FileNodes(items)[k].path : k \in 1..Len(FileNodes(items))}
ProperPrefixes(paths) ==
  UNION {{SubSeq(path, 1, i) : i \in 1..(Len(path) - 1)} : path \in paths}
FolderLocs(items) == {l \in Locs(items) : NodeAt(items, l).type = "folder"}

\* C25: after CodeEditor's handleDirectoryUpload the folder paths of the tree
\* are the proper prefixes of the paths of the admitted files: one folder node
\* for each, under the folder of its parent prefix or at the root, and no
\* folder without an admitted file beneath it.
C25_FoldersArePrefixes ==
  last.op = "upload" =>
    LET prefixes == ProperPrefixes(AdmittedPaths(currentProject))
    IN /\ FolderPaths(currentProject) = prefixes
       /\ Cardinality(FolderLocs(currentProject)) = Cardinality(FolderPaths(currentProject))
       /\ \A l \in FolderLocs(currentProject) :
            LET path == NodeAt(currentProject, l).path IN
            IF Len(l) = 1 THEN Len(path) = 1
            ELSE NodeAt(currentProject, SubSeq(l, 1, Len(l) - 1)).path
                   = SubSeq(path, 1, Len(path) - 1)

\* C26: after deleteProject(id) and the persist effect that follows it, the
\* stored list has no project with that id, also when it was the only one.
C26_DeletedLeavesStore ==
  last.op = "delete" => last.newId \notin StoredIds(store)

\* C27: a project the quota policy has just evicted from the store is not
\* written back by the next operation, whatever it is (a save or an upload
\* makes a project with a new id, never that one).
C27_EvictedStaysOut ==
  [][ last.toast = "Storage full" =>
        \A id \in StoredIds(last.storeBefore) \ StoredIds(store) :
          id \notin StoredIds(store') ]_vars

\* the content of every node of a list of projects, project by project
ContentsOf(projects) ==
  [i \in 1..Len(projects) |->
     [k \in 1..Len(AllNodes(projects[i].files)) |-> AllNodes(projects[i].files)[k].content]]

\* C28: when the write of the list succeeds, what safeGetItem reads back has
\* for every file the content string that was passed in, runs of two or
\* more whitespace characters included.
C28_ContentRoundTrip ==
  last.ret => ContentsOf(StoredProjects(safeGetItem(store))) = ContentsOf(savedProjects)

\* C30: when the suspended handleDirectoryUpload completes, savedProjects is
\* the new project followed by the list as the handlers that ran meanwhile
\* left it: no deletion and no lastOpened update of theirs is lost.
C30_NoLostUpdate ==
  [][ (pending.pc = "reading" /\ pending'.pc = "idle") =>
        /\ Len(savedProjects') = Len(savedProjects) + 1
        /\ Tail(savedProjects') = savedProjects
        /\ savedProjects'[1].id = now'
        /\ savedProjects'[1].files = currentProject'
        /\ \A k \in 1..Len(savedProjects) : savedProjects[k].id # now' ]_vars

\* an upload has completed after a deletion and a lastOpened update ran
\* while it was suspended
C30_Witness ==
  /\ last.op = "upload"
  /\ pending.pc = "idle"
  /\ Len(savedProjects) = 2
  /\ Len(pending.closure) = 2
  /\ \E k \in 1..2 : /\ pending.closure[k].id = savedProjects[2].id
                      /\ pending.closure[k].lastOpened # savedProjects[2].lastOpened

====
